---- MODULE Spec2Model ----
(***************************************************************************)
(* Recurring-job watchdog and liveness supervisor of the REI Cloud         *)
(* automation (src/rei_cloud_automation.py, src/api_email_sender.py).      *)
(*                                                                         *)
(* Time is counted in minutes since 00:00 of day 0, a Monday (Python's     *)
(* datetime.weekday() gives Monday = 0).  The program's datetimes have     *)
(* microsecond resolution; every comparison the supervisor makes is        *)
(* against a whole-minute threshold, so minutes keep the order of events.  *)
(* An ISO-8601 string is modelled by its two parts <<date, time-of-day>>,  *)
(* a date-only string by <<date>>, Python's None by NoneDt / NoneStr.      *)
(***************************************************************************)
EXTENDS Integers, Sequences, FiniteSets, Bags, TLC

(***************************************************************************)
(* Program constants                                                       *)
(***************************************************************************)
SCHEDULED_RUN_HOUR == 6
SCHEDULED_RUN_MINUTE == 1
GRACE_PERIOD_MINUTES == 10
WEEKLY_SCHEDULED_DAY == 5
WEEKLY_SCHEDULED_HOUR == 10
WEEKLY_SCHEDULED_MINUTE == 0
WEEKLY_GRACE_PERIOD_MINUTES == 10
HEARTBEAT_MINUTES == 30
max_attempts == 2

(***************************************************************************)
(* Bounds of the model                                                     *)
(***************************************************************************)
\* number of days after the first one that the clock can reach
MaxDays == 1
\* number of events the environment can produce in one behaviour: a job run
\* whose report export succeeds, a command line read by the listener, an
\* invalidation of the external session, a stop of the process
MaxEvents == 2
\* number of days a stopped process stays down
MaxDowntime == 1
\* value at which the count of heartbeat alerts of one episode saturates
MaxEpisode == 2
\* number of days of reference times the scheduler functions are applied to
RefDays == 8
\* number of store events in one behaviour of the state store on its own: a
\* process start, a save, a fault of the file
MaxFaults == 2
\* number of dates before the first day that an old state file can carry
MaxLegacy == 2

(***************************************************************************)
(* datetime arithmetic                                                     *)
(***************************************************************************)
DayMin == 24 * 60
Hm(h, m) == h * 60 + m
DateOf(t) == t \div DayMin
TimeOf(t) == t % DayMin
\* datetime.weekday(): Monday = 0 ... Sunday = 6
Weekday(t) == DateOf(t) % 7
\* datetime.combine(date, time)
Combine(d, tod) == d * DayMin + tod
\* datetime.isoformat(): "YYYY-MM-DDTHH:MM:SS", the date part and the time part
IsoFormat(t) == <<DateOf(t), TimeOf(t)>>
\* datetime.fromisoformat()
\* fromisoformat accepts a timestamp and a bare date (midnight)
IsoOk(s) == Len(s) \in {1, 2}
FromIsoFormat(s) == IF Len(s) = 1 THEN s[1] * DayMin ELSE s[1] * DayMin + s[2]
\* datetime.strptime(s, "%Y-%m-%d"): defined on a date-only string
StrptimeOk(s) == Len(s) = 1
Strptime(s) == s[1] * DayMin

NoneDt == -1
NoneStr == << >>

(***************************************************************************)
(* The state file: a JSON object, modelled as a function whose domain is   *)
(* the set of keys present.                                                *)
(***************************************************************************)
Keys == {"last_successful_run", "next_expected_run",
         "last_successful_weekly_run", "next_expected_weekly_run",
         "last_run_date"}
EmptyState == [k \in {} |-> NoneStr]
Has(state, k) == k \in DOMAIN state
Get(state, k) == IF k \in DOMAIN state THEN state[k] ELSE NoneStr
Put(state, k, v) == [x \in (DOMAIN state) \cup {k} |-> IF x = k THEN v ELSE state[x]]
Del(state, k) == [x \in (DOMAIN state) \ {k} |-> state[x]]

(***************************************************************************)
(* Deadline scheduler                                                      *)
(***************************************************************************)
\* variant: the next run is the scheduled time of the day of from_time
get_next_scheduled_time_today(from_time) ==
    IsoFormat(Combine(DateOf(from_time), Hm(SCHEDULED_RUN_HOUR, SCHEDULED_RUN_MINUTE)))

get_next_scheduled_time(from_time) ==
    LET tomorrow == DateOf(from_time) + 1
    IN  IsoFormat(Combine(tomorrow, Hm(SCHEDULED_RUN_HOUR, SCHEDULED_RUN_MINUTE)))

\* variant: a target day that is today counts as still ahead (< instead of <=)
get_next_weekly_scheduled_time_same_day(from_time) ==
    LET d0 == WEEKLY_SCHEDULED_DAY - Weekday(from_time)
        days_ahead == IF d0 < 0 THEN d0 + 7 ELSE d0
        next_saturday == DateOf(from_time) + days_ahead
    IN  IsoFormat(Combine(next_saturday, Hm(WEEKLY_SCHEDULED_HOUR, WEEKLY_SCHEDULED_MINUTE)))

get_next_weekly_scheduled_time(from_time) ==
    LET d0 == WEEKLY_SCHEDULED_DAY - Weekday(from_time)
        days_ahead == IF d0 <= 0 THEN d0 + 7 ELSE d0
        next_saturday == DateOf(from_time) + days_ahead
    IN  IsoFormat(Combine(next_saturday, Hm(WEEKLY_SCHEDULED_HOUR, WEEKLY_SCHEDULED_MINUTE)))

(***************************************************************************)
(* State store operations.  Each takes the file's content and the wall     *)
(* clock and gives the file's content after the call.                      *)
(***************************************************************************)
\* variant: a fresh mapping is saved instead of the reloaded one with the change merged
save_successful_run_fresh(f, t) ==
    Put(Put(EmptyState, "last_successful_run", IsoFormat(t)),
        "next_expected_run", get_next_scheduled_time(t))

save_successful_run(f, t) ==
    Put(Put(f, "last_successful_run", IsoFormat(t)),
        "next_expected_run", get_next_scheduled_time(t))

\* variant: a fresh mapping is saved instead of the reloaded one with the change merged
save_successful_weekly_run_fresh(f, t) ==
    Put(Put(EmptyState, "last_successful_weekly_run", IsoFormat(t)),
        "next_expected_weekly_run", get_next_weekly_scheduled_time(t))

save_successful_weekly_run(f, t) ==
    Put(Put(f, "last_successful_weekly_run", IsoFormat(t)),
        "next_expected_weekly_run", get_next_weekly_scheduled_time(t))

\* variant: the modern field is written but the legacy field is not deleted
migrate_legacy_keeps_field(state) ==
    IF Has(state, "last_run_date") /\ ~Has(state, "last_successful_run")
    THEN IF StrptimeOk(state["last_run_date"])
         THEN LET old_date == Strptime(state["last_run_date"])
                  migrated_time == Combine(DateOf(old_date),
                                       Hm(SCHEDULED_RUN_HOUR, SCHEDULED_RUN_MINUTE))
              IN  Put(state, "last_successful_run", IsoFormat(migrated_time))
         ELSE state
    ELSE state

\* the legacy migration of init_state_if_needed, on the in-memory mapping
migrate_legacy(state) ==
    IF Has(state, "last_run_date") /\ ~Has(state, "last_successful_run")
    THEN IF StrptimeOk(state["last_run_date"])
         THEN LET old_date == Strptime(state["last_run_date"])
                  migrated_time == Combine(DateOf(old_date),
                                       Hm(SCHEDULED_RUN_HOUR, SCHEDULED_RUN_MINUTE))
              IN  Del(Put(state, "last_successful_run", IsoFormat(migrated_time)),
                      "last_run_date")
         ELSE state
    ELSE state

\* variant: today's scheduled time is taken whether or not it has passed
initial_daily_deadline_today(t) ==
    LET today_scheduled == Combine(DateOf(t), Hm(SCHEDULED_RUN_HOUR, SCHEDULED_RUN_MINUTE))
    IN  IsoFormat(today_scheduled)

\* variant: the scheduled minute itself still counts as before the run (<= instead of <)
initial_daily_deadline_inclusive(t) ==
    LET today_scheduled == Combine(DateOf(t), Hm(SCHEDULED_RUN_HOUR, SCHEDULED_RUN_MINUTE))
    IN  IF t <= today_scheduled
        THEN IsoFormat(today_scheduled)
        ELSE get_next_scheduled_time(t)

\* the first daily deadline chosen at startup
initial_daily_deadline(t) ==
    LET today_scheduled == Combine(DateOf(t), Hm(SCHEDULED_RUN_HOUR, SCHEDULED_RUN_MINUTE))
    IN  IF t < today_scheduled
        THEN IsoFormat(today_scheduled)
        ELSE get_next_scheduled_time(t)

\* variant: the daily deadline is recomputed at every start
init_state_if_needed_renewed(f, t) ==
    Put(migrate_legacy(f), "next_expected_run", initial_daily_deadline(t))

\* the mapping is written back only in the branch that sets next_expected_run
init_state_if_needed(f, t) ==
    LET state == migrate_legacy(f)
    IN  IF ~Has(state, "next_expected_run")
        THEN Put(state, "next_expected_run", initial_daily_deadline(t))
        ELSE f

\* variant: the weekly time itself still counts as before the run (<= instead of <)
initial_weekly_deadline_inclusive(t) ==
    LET d0 == WEEKLY_SCHEDULED_DAY - Weekday(t)
        days_until_saturday == IF d0 < 0 THEN d0 + 7 ELSE d0
        this_saturday == DateOf(t) + days_until_saturday
        this_saturday_scheduled ==
            Combine(this_saturday, Hm(WEEKLY_SCHEDULED_HOUR, WEEKLY_SCHEDULED_MINUTE))
    IN  IF t <= this_saturday_scheduled
        THEN IsoFormat(this_saturday_scheduled)
        ELSE get_next_weekly_scheduled_time(t)

\* the first weekly deadline chosen at startup
initial_weekly_deadline(t) ==
    LET d0 == WEEKLY_SCHEDULED_DAY - Weekday(t)
        days_until_saturday == IF d0 < 0 THEN d0 + 7 ELSE d0
        this_saturday == DateOf(t) + days_until_saturday
        this_saturday_scheduled ==
            Combine(this_saturday, Hm(WEEKLY_SCHEDULED_HOUR, WEEKLY_SCHEDULED_MINUTE))
    IN  IF t < this_saturday_scheduled
        THEN IsoFormat(this_saturday_scheduled)
        ELSE get_next_weekly_scheduled_time(t)

init_weekly_state_if_needed(f, t) ==
    IF ~Has(f, "next_expected_weekly_run")
    THEN Put(f, "next_expected_weekly_run", initial_weekly_deadline(t))
    ELSE f

\* variant: the grace period is left out of the deadline
is_past_deadline_no_grace(f, t) ==
    LET next_run_str == Get(f, "next_expected_run")
        last_success_str == Get(f, "last_successful_run")
    IN  IF next_run_str = NoneStr
        THEN <<FALSE, NoneDt, NoneDt>>
        ELSE LET next_run_dt == FromIsoFormat(next_run_str)
                 last_success_dt == IF last_success_str # NoneStr
                                    THEN FromIsoFormat(last_success_str)
                                    ELSE NoneDt
             IN  <<t > next_run_dt, next_run_dt, last_success_dt>>

\* variant: the parse is not inside a try; the fourth component is the
\* exception that reaches the caller
is_past_deadline_unguarded(f, t) ==
    LET next_run_str == Get(f, "next_expected_run")
        last_success_str == Get(f, "last_successful_run")
    IN  IF next_run_str = NoneStr
        THEN <<FALSE, NoneDt, NoneDt>>
        ELSE IF ~IsoOk(next_run_str)
                \/ (last_success_str # NoneStr /\ ~IsoOk(last_success_str))
        THEN <<FALSE, NoneDt, NoneDt, "ValueError">>
        ELSE LET next_run_dt == FromIsoFormat(next_run_str)
                 deadline == next_run_dt + GRACE_PERIOD_MINUTES
                 last_success_dt == IF last_success_str # NoneStr
                                    THEN FromIsoFormat(last_success_str)
                                    ELSE NoneDt
             IN  <<t > deadline, next_run_dt, last_success_dt>>

\* (is_past, next_expected_run_dt, last_successful_run_dt)
is_past_deadline(f, t) ==
    LET next_run_str == Get(f, "next_expected_run")
        last_success_str == Get(f, "last_successful_run")
    IN  IF next_run_str = NoneStr
        THEN <<FALSE, NoneDt, NoneDt>>
        ELSE IF ~IsoOk(next_run_str)
                \/ (last_success_str # NoneStr /\ ~IsoOk(last_success_str))
        THEN <<FALSE, NoneDt, NoneDt>>
        ELSE LET next_run_dt == FromIsoFormat(next_run_str)
                 deadline == next_run_dt + GRACE_PERIOD_MINUTES
                 last_success_dt == IF last_success_str # NoneStr
                                    THEN FromIsoFormat(last_success_str)
                                    ELSE NoneDt
             IN  <<t > deadline, next_run_dt, last_success_dt>>

\* variant: the weekly grace period is left out of the deadline
is_past_weekly_deadline_no_grace(f, t) ==
    LET next_run_str == Get(f, "next_expected_weekly_run")
        last_success_str == Get(f, "last_successful_weekly_run")
    IN  IF next_run_str = NoneStr
        THEN <<FALSE, NoneDt, NoneDt>>
        ELSE IF ~IsoOk(next_run_str)
                \/ (last_success_str # NoneStr /\ ~IsoOk(last_success_str))
        THEN <<FALSE, NoneDt, NoneDt>>
        ELSE LET next_run_dt == FromIsoFormat(next_run_str)
                 last_success_dt == IF last_success_str # NoneStr
                                    THEN FromIsoFormat(last_success_str)
                                    ELSE NoneDt
             IN  <<t > next_run_dt, next_run_dt, last_success_dt>>

is_past_weekly_deadline(f, t) ==
    LET next_run_str == Get(f, "next_expected_weekly_run")
        last_success_str == Get(f, "last_successful_weekly_run")
    IN  IF next_run_str = NoneStr
        THEN <<FALSE, NoneDt, NoneDt>>
        ELSE IF ~IsoOk(next_run_str)
                \/ (last_success_str # NoneStr /\ ~IsoOk(last_success_str))
        THEN <<FALSE, NoneDt, NoneDt>>
        ELSE LET next_run_dt == FromIsoFormat(next_run_str)
                 deadline == next_run_dt + WEEKLY_GRACE_PERIOD_MINUTES
                 last_success_dt == IF last_success_str # NoneStr
                                    THEN FromIsoFormat(last_success_str)
                                    ELSE NoneDt
             IN  <<t > deadline, next_run_dt, last_success_dt>>

(***************************************************************************)
(* Report jobs.  The UI automation and the email API are collaborators;    *)
(* their result is the input `outcome`:                                    *)
(*   export_raises       the report generation raised                      *)
(*   email_sent          send_reports returned True                        *)
(*   email_failed        send_reports returned False (it has then sent one *)
(*                       failure alert itself, api_email_sender.py:471)    *)
(*   email_raises        send_reports raised                               *)
(*   email_unconfigured  the import of api_email_sender failed             *)
(* Each job gives <<file content afterwards, failure alerts sent>>.        *)
(***************************************************************************)
Outcomes == {"export_raises", "email_sent", "email_failed", "email_raises",
             "email_unconfigured"}
Exported(outcome) == outcome # "export_raises"

run_daily_report(f, t, outcome) ==
    IF outcome = "export_raises"
    THEN <<f, 1>>
    ELSE <<save_successful_run(f, t), IF outcome = "email_failed" THEN 1 ELSE 0>>

\* variant: the success is recorded before the export is known to have worked
run_weekly_report_records_first(f, t, outcome) ==
    IF outcome = "export_raises"
    THEN <<save_successful_weekly_run(f, t), 1>>
    ELSE IF outcome = "email_sent"
         THEN <<save_successful_weekly_run(f, t), 0>>
         ELSE <<f, IF outcome = "email_failed" THEN 1 ELSE 0>>

run_weekly_report(f, t, outcome) ==
    IF outcome = "export_raises"
    THEN <<f, 1>>
    ELSE IF outcome = "email_sent"
         THEN <<save_successful_weekly_run(f, t), 0>>
         ELSE <<f, IF outcome = "email_failed" THEN 1 ELSE 0>>

(***************************************************************************)
(* Liveness monitor.  `pg` is what the browser session shows when the      *)
(* heartbeat navigates:                                                    *)
(*   dashboard       authenticated, the Dashboard marker is visible        *)
(*   login_redirect  the navigation ends on the b2clogin URL               *)
(*   nav_error       page.goto raises                                      *)
(*   no_marker_form  application URL, marker not visible, the content      *)
(*                   holds a login form                                    *)
(*   no_marker       application URL, marker not visible, no login form    *)
(***************************************************************************)
Pages == {"dashboard", "login_redirect", "nav_error", "no_marker_form", "no_marker"}

\* the try block of heartbeat_check raises
heartbeat_detects(pg) == pg \in {"login_redirect", "nav_error", "no_marker_form"}

\* the URL test of auto_login: on the application host and not on b2clogin
on_application_url(pg) == pg # "login_redirect"

\* what one submission of the login form leads to
LoginResponses == {"accepted", "rejected", "again"}

\* one pass of auto_login's loop, from attempt number `attempt`
RECURSIVE login_attempt(_, _, _)
login_attempt(pg, responses, attempt) ==
    IF attempt > max_attempts THEN <<FALSE, pg>>
    ELSE IF on_application_url(pg) THEN <<TRUE, pg>>
    ELSE IF responses[attempt] = "accepted" THEN <<TRUE, "dashboard">>
    ELSE IF responses[attempt] = "rejected" THEN <<FALSE, pg>>
    ELSE login_attempt(pg, responses, attempt + 1)

\* auto_login: <<result, page afterwards>>
auto_login(pg, creds, responses) ==
    IF ~creds THEN <<FALSE, pg>> ELSE login_attempt(pg, responses, 1)

\* variant: a heartbeat check is recorded in the state file like a daily run
heartbeat_state_file_records(f, t) == save_successful_run(f, t)

\* the state file after heartbeat_check: neither it nor auto_login calls
\* load_state or save_state
heartbeat_state_file(f, t) == f

\* variant: the alert is sent as soon as the issue is detected, before the re-login
heartbeat_check_alerts_first(pg, creds, responses) ==
    IF ~heartbeat_detects(pg)
    THEN <<TRUE, 0, pg>>
    ELSE LET relogin == IF creds THEN auto_login(pg, creds, responses) ELSE <<FALSE, pg>>
         IN  IF creds /\ relogin[1]
             THEN <<TRUE, 1, relogin[2]>>
             ELSE <<FALSE, 1, relogin[2]>>

\* heartbeat_check: <<result, alerts sent, page afterwards>>
heartbeat_check(pg, creds, responses) ==
    IF ~heartbeat_detects(pg)
    THEN <<TRUE, 0, pg>>
    ELSE LET relogin == IF creds THEN auto_login(pg, creds, responses) ELSE <<FALSE, pg>>
         IN  IF creds /\ relogin[1]
             THEN <<TRUE, 0, relogin[2]>>
             ELSE <<FALSE, 1, relogin[2]>>

(***************************************************************************)
(* The wall clock.  The supervisor compares the clock with the scheduled   *)
(* times and with scheduled time + grace only, so the clock is sampled     *)
(* just before, at, at the end of and just after each such window: every   *)
(* day around the daily time, on the weekly day also around the weekly     *)
(* time.                                                                   *)
(***************************************************************************)
DailyAt == Hm(SCHEDULED_RUN_HOUR, SCHEDULED_RUN_MINUTE)
WeeklyAt == Hm(WEEKLY_SCHEDULED_HOUR, WEEKLY_SCHEDULED_MINUTE)
Instants(d) ==
    {DailyAt - 1, DailyAt, DailyAt + GRACE_PERIOD_MINUTES,
     DailyAt + GRACE_PERIOD_MINUTES + 1}
    \cup (IF d % 7 = WEEKLY_SCHEDULED_DAY
          THEN {WeeklyAt, WeeklyAt + WEEKLY_GRACE_PERIOD_MINUTES,
                WeeklyAt + WEEKLY_GRACE_PERIOD_MINUTES + 1}
          ELSE {})
\* the process is first started on the day before the weekly day
FirstDay == WEEKLY_SCHEDULED_DAY - 1
LastDay == FirstDay + MaxDays
Clock == UNION {{Combine(d, m) : m \in Instants(d)} : d \in FirstDay..LastDay}
StartTimes == {Combine(FirstDay, m) : m \in Instants(FirstDay)}
Later(t) == {u \in Clock : u > t}
NextInstant(t) == CHOOSE u \in Later(t) : \A v \in Later(t) : u <= v

(***************************************************************************)
(* The `schedule` library: every job has a next_run, is runnable when the  *)
(* clock has reached it, and is rescheduled from the clock when it has     *)
(* run.  run_pending runs the runnable jobs in the order of their next_run *)
(* (ties in the order they were scheduled).                                *)
(***************************************************************************)
Jobs == <<"daily", "weekly", "heartbeat">>

\* schedule.every().day.at("06:01")
next_daily_run(t) ==
    IF TimeOf(t) < DailyAt THEN Combine(DateOf(t), DailyAt)
    ELSE Combine(DateOf(t) + 1, DailyAt)

\* schedule.every().saturday.at("10:00")
next_weekly_run(t) ==
    LET d0 == WEEKLY_SCHEDULED_DAY - Weekday(t)
        ahead == IF d0 < 0 \/ (d0 = 0 /\ TimeOf(t) >= WeeklyAt) THEN d0 + 7 ELSE d0
    IN  Combine(DateOf(t) + ahead, WeeklyAt)

\* schedule.every(30).minutes
next_heartbeat_run(t) == t + HEARTBEAT_MINUTES

schedule_all(t) ==
    [j \in {"daily", "weekly", "heartbeat"} |->
        CASE j = "daily" -> next_daily_run(t)
          [] j = "weekly" -> next_weekly_run(t)
          [] OTHER -> next_heartbeat_run(t)]

RECURSIVE insert_job(_, _, _)
insert_job(j, q, nr) ==
    IF q = << >> THEN <<j>>
    ELSE IF nr[j] < nr[Head(q)] THEN <<j>> \o q
    ELSE <<Head(q)>> \o insert_job(j, Tail(q), nr)

RECURSIVE sort_jobs(_, _, _)
sort_jobs(i, nr, t) ==
    IF i = 0 THEN << >>
    ELSE LET q == sort_jobs(i - 1, nr, t)
         IN  IF t >= nr[Jobs[i]] THEN insert_job(Jobs[i], q, nr) ELSE q

\* the runnable jobs of run_pending, sorted
runnable_jobs(nr, t) == sort_jobs(Len(Jobs), nr, t)

(***************************************************************************)
(* State                                                                   *)
(***************************************************************************)
VARIABLES
    now,            \* the wall clock
    pc,             \* where the process is: "down", startup steps, loop steps
    boots,          \* number of process starts so far
    file,           \* content of automation_state.json
    credentials,    \* REI_USERNAME and REI_PASSWORD are configured
    running,        \* blocking actions in progress, as <<thread, action>>
    alert_delivery, \* history: how the most recent missed-run alert send ended
    startup_file,   \* history: the state file as startup left it, in the first iteration
    page,           \* what the browser session shows
    next_run,       \* next_run of each scheduled job
    runnable,       \* jobs run_pending still has to run, in order
    alert_sent_for_current_deadline,
    current_deadline_str,
    weekly_alert_sent_for_current_deadline,
    current_weekly_deadline_str,
    trigger_daily_event,
    trigger_weekly_event,
    unserved,       \* history: cadences with a command read and no manual run started since
    events,         \* number of environment events so far
    missed_alerts,  \* history: bag of missed-run alerts <<cadence, deadline, boot, time>>
    success_log,    \* history: recorded successes <<cadence, time, deadline before>>
    last_job,       \* history: the most recent job run of this loop iteration
    last_heartbeat, \* history: the most recent heartbeat check
    episode_alerts  \* history: heartbeat alerts since the last check that returned True

vars == <<now, pc, boots, file, credentials, running, alert_delivery, startup_file, page,
          next_run, runnable, alert_sent_for_current_deadline, current_deadline_str,
          weekly_alert_sent_for_current_deadline, current_weekly_deadline_str,
          trigger_daily_event, trigger_weekly_event, unserved, events,
          missed_alerts, success_log, last_job, last_heartbeat, episode_alerts>>

tracker_vars == <<alert_sent_for_current_deadline, current_deadline_str,
                  weekly_alert_sent_for_current_deadline, current_weekly_deadline_str>>
trigger_vars == <<trigger_daily_event, trigger_weekly_event, unserved>>
session_vars == <<page, last_heartbeat, episode_alerts>>
config_vars == <<boots, credentials, startup_file>>
call_vars == <<alert_delivery, running>>

NoDelivery == [cadence |-> "none", result |-> "none", later |-> FALSE]
NoStartup == [first |-> FALSE, file |-> EmptyState, at |-> NoneDt]
NoJob == [cadence |-> "none", outcome |-> "none", alerts |-> 0,
          before |-> EmptyState, at |-> NoneDt]
NoHeartbeat == [detected |-> FALSE, relogin |-> FALSE, result |-> TRUE, alerts |-> 0,
                before |-> "dashboard", at |-> NoneDt]

Init ==
    /\ now \in StartTimes
    /\ pc = "down"
    /\ boots = 0
    /\ file = EmptyState
    /\ credentials \in BOOLEAN
    /\ running = {}
    /\ alert_delivery = NoDelivery
    /\ startup_file = NoStartup
    /\ page = "dashboard"
    /\ next_run = schedule_all(now)
    /\ runnable = << >>
    /\ alert_sent_for_current_deadline = FALSE
    /\ current_deadline_str = NoneStr
    /\ weekly_alert_sent_for_current_deadline = FALSE
    /\ current_weekly_deadline_str = NoneStr
    /\ trigger_daily_event = FALSE
    /\ trigger_weekly_event = FALSE
    /\ unserved = {}
    /\ events = 0
    /\ missed_alerts = EmptyBag
    /\ success_log = {}
    /\ last_job = NoJob
    /\ last_heartbeat = NoHeartbeat
    /\ episode_alerts = 0

(***************************************************************************)
(* Cadence watchdogs: the two blocks of the main loop.  Each gives         *)
(* <<alert flag afterwards, tracked deadline afterwards, alert sent>>.     *)
(***************************************************************************)
\* variant: the alert flag is not set on the branch that sends the alert
daily_watchdog_flag_not_set(f, t, sent, current) ==
    LET r == is_past_deadline(f, t)
        is_past == r[1]
        next_expected_dt == r[2]
        last_success_dt == r[3]
    IN  IF is_past /\ next_expected_dt # NoneDt
        THEN LET deadline_str == IsoFormat(next_expected_dt)
                 sent1 == IF deadline_str # current THEN FALSE ELSE sent
                 missed_run == (last_success_dt = NoneDt)
                               \/ (last_success_dt < next_expected_dt)
             IN  <<IF missed_run THEN sent1 ELSE TRUE, deadline_str, ~sent1 /\ missed_run>>
        ELSE <<sent, current, FALSE>>

\* variant: the dedup is a plain flag, not reset when the deadline changes
daily_watchdog_plain_flag(f, t, sent, current) ==
    LET r == is_past_deadline(f, t)
        is_past == r[1]
        next_expected_dt == r[2]
        last_success_dt == r[3]
    IN  IF is_past /\ next_expected_dt # NoneDt
        THEN LET deadline_str == IsoFormat(next_expected_dt)
                 missed_run == (last_success_dt = NoneDt)
                               \/ (last_success_dt < next_expected_dt)
             IN  <<TRUE, deadline_str, ~sent /\ missed_run>>
        ELSE <<sent, current, FALSE>>

daily_watchdog(f, t, sent, current) ==
    LET r == is_past_deadline(f, t)
        is_past == r[1]
        next_expected_dt == r[2]
        last_success_dt == r[3]
    IN  IF is_past /\ next_expected_dt # NoneDt
        THEN LET deadline_str == IsoFormat(next_expected_dt)
                 sent1 == IF deadline_str # current THEN FALSE ELSE sent
                 missed_run == (last_success_dt = NoneDt)
                               \/ (last_success_dt < next_expected_dt)
             IN  <<TRUE, deadline_str, ~sent1 /\ missed_run>>
        ELSE <<sent, current, FALSE>>

\* variant: the weekly alert flag is not set on the branch that sends the alert
weekly_watchdog_flag_not_set(f, t, sent, current) ==
    LET r == is_past_weekly_deadline(f, t)
        is_past_weekly == r[1]
        next_expected_weekly_dt == r[2]
        last_weekly_success_dt == r[3]
    IN  IF is_past_weekly /\ next_expected_weekly_dt # NoneDt
        THEN LET weekly_deadline_str == IsoFormat(next_expected_weekly_dt)
                 sent1 == IF weekly_deadline_str # current THEN FALSE ELSE sent
                 missed_weekly_run == (last_weekly_success_dt = NoneDt)
                                      \/ (last_weekly_success_dt < next_expected_weekly_dt)
             IN  <<IF missed_weekly_run THEN sent1 ELSE TRUE, weekly_deadline_str,
                   ~sent1 /\ missed_weekly_run>>
        ELSE <<sent, current, FALSE>>

weekly_watchdog(f, t, sent, current) ==
    LET r == is_past_weekly_deadline(f, t)
        is_past_weekly == r[1]
        next_expected_weekly_dt == r[2]
        last_weekly_success_dt == r[3]
    IN  IF is_past_weekly /\ next_expected_weekly_dt # NoneDt
        THEN LET weekly_deadline_str == IsoFormat(next_expected_weekly_dt)
                 sent1 == IF weekly_deadline_str # current THEN FALSE ELSE sent
                 missed_weekly_run == (last_weekly_success_dt = NoneDt)
                                      \/ (last_weekly_success_dt < next_expected_weekly_dt)
             IN  <<TRUE, weekly_deadline_str, ~sent1 /\ missed_weekly_run>>
        ELSE <<sent, current, FALSE>>

(***************************************************************************)
(* The manual-trigger listener: line.strip().lower() of the lines it reads *)
(***************************************************************************)
Lines == {"run_d", "RUN_D", "run_w", " Run_W ", "status", ""}
\* the cadence a line asks for, letter case and surrounding blanks aside
Intended(line) ==
    IF line \in {"run_d", "RUN_D"} THEN {"daily"}
    ELSE IF line \in {"run_w", " Run_W "} THEN {"weekly"}
    ELSE {}

\* variant: the line is stripped but its letter case is kept
strip_only(line) ==
    CASE line \in {" Run_W "} -> "Run_W"
      [] OTHER -> line

strip_lower(line) ==
    CASE line \in {"run_d", "RUN_D"} -> "run_d"
      [] line \in {"run_w", " Run_W "} -> "run_w"
      [] OTHER -> line

(***************************************************************************)
(* Inputs of a job run: its outcome and the clock when it returns          *)
(***************************************************************************)
JobOutcomes == IF events < MaxEvents THEN Outcomes ELSE {"export_raises"}
JobEnds == {now} \cup (IF Later(now) # {} THEN {NextInstant(now)} ELSE {})

DailyRun(outcome, t) ==
    LET r == run_daily_report(file, t, outcome)
    IN  /\ now' = t
        /\ file' = r[1]
        /\ events' = IF Exported(outcome) THEN events + 1 ELSE events
        /\ last_job' = [cadence |-> "daily", outcome |-> outcome, alerts |-> r[2],
                        before |-> file, at |-> t]
        /\ success_log' = IF r[1] # file
                          THEN success_log \cup {<<"daily", t, Get(file, "next_expected_run")>>}
                          ELSE success_log

WeeklyRun(outcome, t) ==
    LET r == run_weekly_report(file, t, outcome)
    IN  /\ now' = t
        /\ file' = r[1]
        /\ events' = IF Exported(outcome) THEN events + 1 ELSE events
        /\ last_job' = [cadence |-> "weekly", outcome |-> outcome, alerts |-> r[2],
                        before |-> file, at |-> t]
        /\ success_log' = IF r[1] # file
                          THEN success_log \cup
                               {<<"weekly", t, Get(file, "next_expected_weekly_run")>>}
                          ELSE success_log

job_vars == <<now, file, events, last_job, success_log>>

(***************************************************************************)
(* Process start: main() up to the main loop                               *)
(***************************************************************************)
\* the clock values at which a stopped process can be started again
Downtime(t) == {u \in Later(t) : u <= t + MaxDowntime * DayMin}

\* the process is started; the operator is logged in before the engine starts
Boot ==
    /\ pc = "down"
    /\ \E t \in (IF boots = 0 THEN {now} ELSE {now} \cup Downtime(now)) :
          /\ now' = t
          /\ next_run' = schedule_all(t)
    /\ boots' = boots + 1
    /\ page' = "dashboard"
    /\ pc' = "run_now"
    /\ UNCHANGED <<file, credentials, startup_file, call_vars, runnable,
                   tracker_vars, trigger_vars, events, missed_alerts, success_log,
                   last_job, last_heartbeat, episode_alerts>>

StartupRunNow ==
    /\ pc = "run_now"
    /\ \E run_now \in BOOLEAN :
       IF run_now
       THEN \E outcome \in JobOutcomes, t \in JobEnds : DailyRun(outcome, t)
       ELSE UNCHANGED job_vars
    /\ pc' = "run_weekly"
    /\ UNCHANGED <<config_vars, call_vars, session_vars, next_run, runnable,
                   tracker_vars, trigger_vars, missed_alerts>>

StartupRunWeekly ==
    /\ pc = "run_weekly"
    /\ \E run_weekly \in BOOLEAN :
       IF run_weekly
       THEN \E outcome \in JobOutcomes, t \in JobEnds : WeeklyRun(outcome, t)
       ELSE UNCHANGED job_vars
    /\ pc' = "init"
    /\ UNCHANGED <<config_vars, call_vars, session_vars, next_run, runnable,
                   tracker_vars, trigger_vars, missed_alerts>>

StartupInit ==
    /\ pc = "init"
    /\ file' = init_weekly_state_if_needed(init_state_if_needed(file, now), now)
    /\ alert_sent_for_current_deadline' = FALSE
    /\ current_deadline_str' = NoneStr
    /\ weekly_alert_sent_for_current_deadline' = FALSE
    /\ current_weekly_deadline_str' = NoneStr
    /\ startup_file' = [first |-> TRUE, file |-> file', at |-> now]
    /\ pc' = "pending"
    /\ UNCHANGED <<now, boots, credentials, call_vars, session_vars, next_run,
                   runnable, trigger_vars, events, missed_alerts, success_log,
                   last_job>>

(***************************************************************************)
(* One iteration of the main loop                                          *)
(***************************************************************************)
RunPending ==
    /\ pc = "pending"
    /\ runnable' = runnable_jobs(next_run, now)
    /\ pc' = "jobs"
    /\ UNCHANGED <<now, file, config_vars, call_vars, session_vars, next_run,
                   tracker_vars, trigger_vars, events, missed_alerts, success_log,
                   last_job>>

ScheduledDaily ==
    /\ pc = "jobs" /\ runnable # << >> /\ Head(runnable) = "daily"
    /\ \E outcome \in JobOutcomes, t \in JobEnds :
          /\ DailyRun(outcome, t)
          /\ next_run' = [next_run EXCEPT !["daily"] = next_daily_run(t)]
    /\ runnable' = Tail(runnable)
    /\ UNCHANGED <<pc, config_vars, call_vars, session_vars, tracker_vars, trigger_vars,
                   missed_alerts>>

ScheduledWeekly ==
    /\ pc = "jobs" /\ runnable # << >> /\ Head(runnable) = "weekly"
    /\ \E outcome \in JobOutcomes, t \in JobEnds :
          /\ WeeklyRun(outcome, t)
          /\ next_run' = [next_run EXCEPT !["weekly"] = next_weekly_run(t)]
    /\ runnable' = Tail(runnable)
    /\ UNCHANGED <<pc, config_vars, call_vars, session_vars, tracker_vars, trigger_vars,
                   missed_alerts>>

ScheduledHeartbeat ==
    /\ pc = "jobs" /\ runnable # << >> /\ Head(runnable) = "heartbeat"
    /\ \E responses \in [1..max_attempts -> LoginResponses] :
          LET r == heartbeat_check(page, credentials, responses)
          IN  /\ page' = r[3]
              /\ last_heartbeat' = [detected |-> heartbeat_detects(page),
                                    relogin |-> /\ heartbeat_detects(page)
                                                /\ auto_login(page, credentials, responses)[1],
                                    result |-> r[1], alerts |-> r[2],
                                    before |-> page, at |-> now]
              /\ episode_alerts' = IF r[1] THEN 0
                                   ELSE IF episode_alerts + r[2] <= MaxEpisode
                                        THEN episode_alerts + r[2] ELSE MaxEpisode
    /\ file' = heartbeat_state_file(file, now)
    /\ next_run' = [next_run EXCEPT !["heartbeat"] = next_heartbeat_run(now)]
    /\ runnable' = Tail(runnable)
    /\ UNCHANGED <<now, pc, config_vars, call_vars, tracker_vars, trigger_vars,
                   events, missed_alerts, success_log, last_job>>

WatchdogDaily ==
    /\ pc = "jobs" /\ runnable = << >>
    /\ LET r == daily_watchdog(file, now, alert_sent_for_current_deadline,
                               current_deadline_str)
       IN  /\ alert_sent_for_current_deadline' = r[1]
           /\ current_deadline_str' = r[2]
           /\ missed_alerts' =
                 IF r[3]
                 THEN missed_alerts (+) SetToBag({<<"daily", r[2], boots, now>>})
                 ELSE missed_alerts
    /\ pc' = "weekly_watchdog"
    /\ UNCHANGED <<now, file, config_vars, call_vars, session_vars, next_run, runnable,
                   weekly_alert_sent_for_current_deadline, current_weekly_deadline_str,
                   trigger_vars, events, success_log, last_job>>

WatchdogWeekly ==
    /\ pc = "weekly_watchdog"
    /\ LET r == weekly_watchdog(file, now, weekly_alert_sent_for_current_deadline,
                                current_weekly_deadline_str)
       IN  /\ weekly_alert_sent_for_current_deadline' = r[1]
           /\ current_weekly_deadline_str' = r[2]
           /\ missed_alerts' =
                 IF r[3]
                 THEN missed_alerts (+) SetToBag({<<"weekly", r[2], boots, now>>})
                 ELSE missed_alerts
    /\ pc' = "manual_daily"
    /\ UNCHANGED <<now, file, config_vars, call_vars, session_vars, next_run, runnable,
                   alert_sent_for_current_deadline, current_deadline_str,
                   trigger_vars, events, success_log, last_job>>

ManualDaily ==
    /\ pc = "manual_daily"
    /\ IF trigger_daily_event
       THEN /\ trigger_daily_event' = FALSE
            /\ unserved' = unserved \ {"daily"}
            /\ \E outcome \in JobOutcomes, t \in JobEnds : DailyRun(outcome, t)
       ELSE UNCHANGED <<trigger_daily_event, unserved, job_vars>>
    /\ pc' = "manual_weekly"
    /\ UNCHANGED <<config_vars, call_vars, session_vars, next_run, runnable,
                   tracker_vars, trigger_weekly_event, missed_alerts>>

ManualWeekly ==
    /\ pc = "manual_weekly"
    /\ IF trigger_weekly_event
       THEN /\ trigger_weekly_event' = FALSE
            /\ unserved' = unserved \ {"weekly"}
            /\ \E outcome \in JobOutcomes, t \in JobEnds : WeeklyRun(outcome, t)
       ELSE UNCHANGED <<trigger_weekly_event, unserved, job_vars>>
    /\ pc' = "sleep"
    /\ UNCHANGED <<config_vars, call_vars, session_vars, next_run, runnable,
                   tracker_vars, trigger_daily_event, missed_alerts>>

\* time.sleep(1): the clock stays within the sampled instant or reaches the next
Sleep ==
    /\ pc = "sleep"
    /\ now' \in JobEnds
    /\ last_job' = NoJob
    /\ last_heartbeat' = NoHeartbeat
    /\ startup_file' = NoStartup
    /\ pc' = "pending"
    /\ UNCHANGED <<file, boots, credentials, call_vars, page, episode_alerts,
                   next_run, runnable, tracker_vars, trigger_vars, events,
                   missed_alerts, success_log>>

(***************************************************************************)
(* The listener thread, the session's environment, the operator            *)
(***************************************************************************)
Up == pc \notin {"down", "run_now", "run_weekly"}

Listener ==
    /\ Up
    /\ events < MaxEvents
    /\ \E line \in Lines :
          LET cmd == strip_lower(line)
          IN  /\ trigger_daily_event' = IF cmd = "run_d" THEN TRUE ELSE trigger_daily_event
              /\ trigger_weekly_event' = IF cmd = "run_d" THEN trigger_weekly_event
                                         ELSE IF cmd = "run_w" THEN TRUE
                                         ELSE trigger_weekly_event
              /\ unserved' = unserved \cup Intended(line)
    /\ events' = events + 1
    /\ UNCHANGED <<now, pc, file, config_vars, call_vars, session_vars, next_run,
                   runnable, tracker_vars, missed_alerts, success_log, last_job>>

\* the remote side invalidates the session; the program observes it only at its
\* next heartbeat, so it is placed between two ticks
SessionExpires ==
    /\ pc = "sleep"
    /\ page = "dashboard"
    /\ events < MaxEvents
    /\ page' \in Pages \ {"dashboard"}
    /\ events' = events + 1
    /\ UNCHANGED <<now, pc, file, config_vars, call_vars, next_run, runnable,
                   tracker_vars, trigger_vars, missed_alerts, success_log, last_job,
                   last_heartbeat, episode_alerts>>

\* SIGINT / SIGTERM (cleanup) or the host going down: the memory of the process is lost
Stop ==
    /\ pc = "sleep"
    /\ events < MaxEvents
    /\ events' = events + 1
    /\ pc' = "down"
    /\ runnable' = << >>
    /\ alert_sent_for_current_deadline' = FALSE
    /\ current_deadline_str' = NoneStr
    /\ weekly_alert_sent_for_current_deadline' = FALSE
    /\ current_weekly_deadline_str' = NoneStr
    /\ trigger_daily_event' = FALSE
    /\ trigger_weekly_event' = FALSE
    /\ unserved' = {}
    /\ last_job' = NoJob
    /\ last_heartbeat' = NoHeartbeat
    /\ episode_alerts' = 0
    /\ startup_file' = NoStartup
    /\ UNCHANGED <<now, file, boots, credentials, call_vars, page, next_run,
                   missed_alerts, success_log>>

Next ==
    \/ Boot
    \/ StartupRunNow
    \/ StartupRunWeekly
    \/ StartupInit
    \/ RunPending
    \/ ScheduledDaily
    \/ ScheduledWeekly
    \/ ScheduledHeartbeat
    \/ WatchdogDaily
    \/ WatchdogWeekly
    \/ ManualDaily
    \/ ManualWeekly
    \/ Sleep
    \/ Listener
    \/ SessionExpires
    \/ Stop

Spec == Init /\ [][Next]_vars

(***************************************************************************)
(* The deadline scheduler and the startup initialisers on their own: each  *)
(* is applied once to a first-run state file at an arbitrary minute of     *)
(* RefDays consecutive days.                                               *)
(***************************************************************************)
RefTimes == 0..(RefDays * DayMin - 1)

InitSched ==
    /\ now \in RefTimes
    /\ pc = "sched"
    /\ boots = 0
    /\ file = EmptyState
    /\ credentials = FALSE
    /\ running = {}
    /\ alert_delivery = NoDelivery
    /\ startup_file = NoStartup
    /\ page = "dashboard"
    /\ next_run = schedule_all(now)
    /\ runnable = << >>
    /\ alert_sent_for_current_deadline = FALSE
    /\ current_deadline_str = NoneStr
    /\ weekly_alert_sent_for_current_deadline = FALSE
    /\ current_weekly_deadline_str = NoneStr
    /\ trigger_daily_event = FALSE
    /\ trigger_weekly_event = FALSE
    /\ unserved = {}
    /\ events = 0
    /\ missed_alerts = EmptyBag
    /\ success_log = {}
    /\ last_job = NoJob
    /\ last_heartbeat = NoHeartbeat
    /\ episode_alerts = 0

sched_frame == <<now, config_vars, call_vars, session_vars, next_run, runnable, tracker_vars,
                 trigger_vars, events, missed_alerts, success_log, last_job>>

SchedInitDaily ==
    /\ pc = "sched"
    /\ file' = init_state_if_needed(file, now)
    /\ pc' = "sched_init_daily"
    /\ UNCHANGED sched_frame

SchedInitWeekly ==
    /\ pc = "sched"
    /\ file' = init_weekly_state_if_needed(file, now)
    /\ pc' = "sched_init_weekly"
    /\ UNCHANGED sched_frame

SchedSaveDaily ==
    /\ pc = "sched"
    /\ file' = save_successful_run(file, now)
    /\ pc' = "sched_save_daily"
    /\ UNCHANGED sched_frame

SchedSaveWeekly ==
    /\ pc = "sched"
    /\ file' = save_successful_weekly_run(file, now)
    /\ pc' = "sched_save_weekly"
    /\ UNCHANGED sched_frame

NextSched ==
    \/ SchedInitDaily
    \/ SchedInitWeekly
    \/ SchedSaveDaily
    \/ SchedSaveWeekly

SpecSched == InitSched /\ [][NextSched]_vars

(***************************************************************************)
(* The state store under startup and faults: the process is started on a   *)
(* state file left by an earlier run (possibly by a version that wrote     *)
(* last_run_date), saves successes, can be killed while save_state writes, *)
(* and can find the file gone or with a timestamp it cannot parse.         *)
(***************************************************************************)
\* a string none of the date parsers accepts
BadStr == <<0, 0, 0>>
\* what load_state gives for a missing file or one json.load rejects
Unreadable == EmptyState
LegacyDates == (FirstDay - MaxLegacy)..(FirstDay - 1)
StoredValues(k) ==
    IF k = "last_run_date" THEN {<<d>> : d \in LegacyDates} \cup {BadStr}
    ELSE IF k = "last_successful_run"
         THEN {IsoFormat(Combine(FirstDay - 1, DailyAt)), BadStr}
    ELSE IF k = "next_expected_run"
         THEN {IsoFormat(Combine(FirstDay, DailyAt)), BadStr}
    ELSE IF k = "last_successful_weekly_run"
         THEN {IsoFormat(Combine(WEEKLY_SCHEDULED_DAY - 7, WeeklyAt))}
    ELSE {IsoFormat(Combine(WEEKLY_SCHEDULED_DAY, WeeklyAt))}
AllStoredValues == UNION {StoredValues(k) : k \in Keys}
StoredStates ==
    {f \in UNION {[D -> AllStoredValues] : D \in SUBSET Keys} :
        \A k \in DOMAIN f : f[k] \in StoredValues(k)}

InitStore ==
    /\ now \in StartTimes
    /\ pc = "store"
    /\ boots = 0
    /\ file \in StoredStates
    /\ credentials = FALSE
    /\ running = {}
    /\ alert_delivery = NoDelivery
    /\ startup_file = NoStartup
    /\ page = "dashboard"
    /\ next_run = schedule_all(now)
    /\ runnable = << >>
    /\ alert_sent_for_current_deadline = FALSE
    /\ current_deadline_str = NoneStr
    /\ weekly_alert_sent_for_current_deadline = FALSE
    /\ current_weekly_deadline_str = NoneStr
    /\ trigger_daily_event = FALSE
    /\ trigger_weekly_event = FALSE
    /\ unserved = {}
    /\ events = 0
    /\ missed_alerts = EmptyBag
    /\ success_log = {}
    /\ last_job = NoJob
    /\ last_heartbeat = NoHeartbeat
    /\ episode_alerts = 0

store_frame == <<now, credentials, startup_file, call_vars, session_vars, next_run,
                 runnable, trigger_vars, success_log>>

\* a process start: init_state_if_needed, init_weekly_state_if_needed, trackers
StoreStartup ==
    /\ pc \in {"store", "store_started", "store_crashed", "store_faulted", "store_ticked"}
    /\ boots < MaxFaults
    /\ boots' = boots + 1
    /\ file' = init_weekly_state_if_needed(init_state_if_needed(file, now), now)
    /\ alert_sent_for_current_deadline' = FALSE
    /\ current_deadline_str' = NoneStr
    /\ weekly_alert_sent_for_current_deadline' = FALSE
    /\ current_weekly_deadline_str' = NoneStr
    /\ last_job' = [NoJob EXCEPT !.before = file]
    /\ pc' = "store_started"
    /\ UNCHANGED <<store_frame, events, missed_alerts>>

\* a job of cadence c has succeeded and save_state opens the file for writing,
\* which empties it
StoreSaveOpen ==
    /\ pc \in {"store_started", "store_saved", "store_save_failed", "store_ticked",
               "store_faulted"}
    /\ events < MaxFaults
    /\ events' = events + 1
    /\ \E c \in {"daily", "weekly"} :
          last_job' = [cadence |-> c, outcome |-> "email_sent", alerts |-> 0,
                       before |-> file, at |-> now]
    /\ file' = Unreadable
    /\ pc' = "store_writing"
    /\ UNCHANGED <<store_frame, boots, tracker_vars, missed_alerts>>

\* json.dump writes the merged mapping and the file is closed
StoreSaveDump ==
    /\ pc = "store_writing"
    /\ file' = IF last_job.cadence = "daily"
               THEN save_successful_run(last_job.before, last_job.at)
               ELSE save_successful_weekly_run(last_job.before, last_job.at)
    /\ pc' = "store_saved"
    /\ UNCHANGED <<store_frame, boots, tracker_vars, events, missed_alerts, last_job>>

\* the process is killed between the open and the end of the dump
StoreCrash ==
    /\ pc = "store_writing"
    /\ pc' = "store_crashed"
    /\ UNCHANGED <<store_frame, boots, file, tracker_vars, events, missed_alerts,
                   last_job>>

\* open raises (no permission, no space): save_state logs and returns
StoreSaveFails ==
    /\ pc \in {"store_started", "store_saved", "store_ticked", "store_faulted"}
    /\ events < MaxFaults
    /\ events' = events + 1
    /\ \E c \in {"daily", "weekly"} :
          last_job' = [cadence |-> c, outcome |-> "email_sent", alerts |-> 0,
                       before |-> file, at |-> now]
    /\ pc' = "store_save_failed"
    /\ UNCHANGED <<store_frame, boots, file, tracker_vars, missed_alerts>>

\* while the loop runs the file is removed, or overwritten with something
\* json.load rejects, or one of its timestamps becomes unparsable
StoreFault ==
    /\ pc \in {"store_started", "store_saved", "store_save_failed", "store_ticked"}
    /\ events < MaxFaults
    /\ events' = events + 1
    /\ file' \in {Unreadable} \cup {Put(file, k, BadStr) : k \in DOMAIN file}
    /\ pc' = "store_faulted"
    /\ UNCHANGED <<store_frame, boots, tracker_vars, missed_alerts, last_job>>

\* the two watchdog blocks of one loop iteration; an exception out of
\* is_past_deadline or is_past_weekly_deadline is caught by nothing in main
StoreTick ==
    /\ pc \in {"store_started", "store_saved", "store_save_failed", "store_faulted"}
    /\ IF Len(is_past_deadline(file, now)) > 3
          \/ Len(is_past_weekly_deadline(file, now)) > 3
       THEN /\ pc' = "store_died"
            /\ UNCHANGED <<tracker_vars, missed_alerts>>
       ELSE LET d == daily_watchdog(file, now, alert_sent_for_current_deadline,
                                    current_deadline_str)
                w == weekly_watchdog(file, now, weekly_alert_sent_for_current_deadline,
                                     current_weekly_deadline_str)
            IN  /\ alert_sent_for_current_deadline' = d[1]
                /\ current_deadline_str' = d[2]
                /\ weekly_alert_sent_for_current_deadline' = w[1]
                /\ current_weekly_deadline_str' = w[2]
                /\ missed_alerts' =
                      (IF d[3] THEN missed_alerts (+) SetToBag({<<"daily", d[2], boots, now>>})
                       ELSE missed_alerts)
                      (+) (IF w[3] THEN SetToBag({<<"weekly", w[2], boots, now>>})
                           ELSE EmptyBag)
                /\ pc' = "store_ticked"
    /\ UNCHANGED <<store_frame, boots, file, events, last_job>>

NextStore ==
    \/ StoreStartup
    \/ StoreSaveOpen
    \/ StoreSaveDump
    \/ StoreCrash
    \/ StoreSaveFails
    \/ StoreFault
    \/ StoreTick

SpecStore == InitStore /\ [][NextStore]_vars

(***************************************************************************)
(* The listener thread against the manual-trigger blocks of the main loop, *)
(* step by step: the test of the event, its clear, the start of the job    *)
(* and its return are separate steps, and the listener can read a line     *)
(* between any two of them.                                                *)
(***************************************************************************)
InitListener ==
    /\ now \in StartTimes
    /\ pc = "lsn_test_daily"
    /\ boots = 1
    /\ file = EmptyState
    /\ credentials = FALSE
    /\ running = {}
    /\ alert_delivery = NoDelivery
    /\ startup_file = NoStartup
    /\ page = "dashboard"
    /\ next_run = schedule_all(now)
    /\ runnable = << >>
    /\ alert_sent_for_current_deadline = FALSE
    /\ current_deadline_str = NoneStr
    /\ weekly_alert_sent_for_current_deadline = FALSE
    /\ current_weekly_deadline_str = NoneStr
    /\ trigger_daily_event = FALSE
    /\ trigger_weekly_event = FALSE
    /\ unserved = {}
    /\ events = 0
    /\ missed_alerts = EmptyBag
    /\ success_log = {}
    /\ last_job = NoJob
    /\ last_heartbeat = NoHeartbeat
    /\ episode_alerts = 0

lsn_frame == <<config_vars, call_vars, session_vars, next_run, runnable, tracker_vars,
               missed_alerts>>

\* input_listener: one line read
LsnRead ==
    /\ events < MaxEvents
    /\ \E line \in Lines :
          LET cmd == strip_lower(line)
          IN  /\ trigger_daily_event' = IF cmd = "run_d" THEN TRUE ELSE trigger_daily_event
              /\ trigger_weekly_event' = IF cmd = "run_d" THEN trigger_weekly_event
                                         ELSE IF cmd = "run_w" THEN TRUE
                                         ELSE trigger_weekly_event
              /\ unserved' = unserved \cup Intended(line)
    /\ events' = events + 1
    /\ UNCHANGED <<lsn_frame, now, pc, file, success_log, last_job>>

\* if trigger_daily_event.is_set():
LsnTestDaily ==
    /\ pc = "lsn_test_daily"
    /\ pc' = IF trigger_daily_event THEN "lsn_clear_daily" ELSE "lsn_test_weekly"
    /\ UNCHANGED <<lsn_frame, trigger_vars, job_vars>>

\* trigger_daily_event.clear()
LsnClearDaily ==
    /\ pc = "lsn_clear_daily"
    /\ trigger_daily_event' = FALSE
    /\ pc' = "lsn_start_daily"
    /\ UNCHANGED <<lsn_frame, trigger_weekly_event, unserved, job_vars>>

\* run_daily_report() is entered
LsnStartDaily ==
    /\ pc = "lsn_start_daily"
    /\ unserved' = unserved \ {"daily"}
    /\ pc' = "lsn_running_daily"
    /\ UNCHANGED <<lsn_frame, trigger_daily_event, trigger_weekly_event, job_vars>>

\* run_daily_report() returns
LsnEndDaily ==
    /\ pc = "lsn_running_daily"
    /\ \E outcome \in JobOutcomes : DailyRun(outcome, now)
    /\ pc' = "lsn_test_weekly"
    /\ UNCHANGED <<lsn_frame, trigger_vars>>

\* if trigger_weekly_event.is_set():
LsnTestWeekly ==
    /\ pc = "lsn_test_weekly"
    /\ pc' = IF trigger_weekly_event THEN "lsn_clear_weekly" ELSE "lsn_sleep"
    /\ UNCHANGED <<lsn_frame, trigger_vars, job_vars>>

\* trigger_weekly_event.clear()
LsnClearWeekly ==
    /\ pc = "lsn_clear_weekly"
    /\ trigger_weekly_event' = FALSE
    /\ pc' = "lsn_start_weekly"
    /\ UNCHANGED <<lsn_frame, trigger_daily_event, unserved, job_vars>>

\* run_weekly_report() is entered
LsnStartWeekly ==
    /\ pc = "lsn_start_weekly"
    /\ unserved' = unserved \ {"weekly"}
    /\ pc' = "lsn_running_weekly"
    /\ UNCHANGED <<lsn_frame, trigger_daily_event, trigger_weekly_event, job_vars>>

\* run_weekly_report() returns
LsnEndWeekly ==
    /\ pc = "lsn_running_weekly"
    /\ \E outcome \in JobOutcomes : WeeklyRun(outcome, now)
    /\ pc' = "lsn_sleep"
    /\ UNCHANGED <<lsn_frame, trigger_vars>>

\* time.sleep(1) and the parts of the next iteration that come before the
\* manual-trigger blocks, none of which touches the events
LsnSleep ==
    /\ pc = "lsn_sleep"
    /\ now' \in JobEnds
    /\ last_job' = NoJob
    /\ pc' = "lsn_test_daily"
    /\ UNCHANGED <<lsn_frame, trigger_vars, file, events, success_log>>

NextListener ==
    \/ LsnRead
    \/ LsnTestDaily
    \/ LsnClearDaily
    \/ LsnStartDaily
    \/ LsnEndDaily
    \/ LsnTestWeekly
    \/ LsnClearWeekly
    \/ LsnStartWeekly
    \/ LsnEndWeekly
    \/ LsnSleep

SpecListener == InitListener /\ [][NextListener]_vars

(***************************************************************************)
(* The two threads of the process with every blocking call of the main     *)
(* loop split into its entry and its return: a job run by run_pending, a   *)
(* missed-run alert sent by a watchdog block, a manually triggered job.    *)
(* Between any two steps the clock can move on (so that other jobs become  *)
(* due while one is in progress) and the listener thread can read a line.  *)
(* `running` holds the calls that have been entered and have not returned. *)
(***************************************************************************)
\* variant: the listener thread enters the job itself instead of signalling the loop
input_listener_runs_job(line, f, t) ==
    LET cmd == strip_lower(line)
    IN  <<FALSE, FALSE,
          IF cmd = "run_d" THEN {"daily"} ELSE IF cmd = "run_w" THEN {"weekly"} ELSE {},
          f>>

\* variant: the listener thread records the requested run in the state file itself
input_listener_records(line, f, t) ==
    LET cmd == strip_lower(line)
    IN  <<cmd = "run_d", cmd = "run_w", {},
          IF cmd = "run_d" THEN save_successful_run(f, t)
          ELSE IF cmd = "run_w" THEN save_successful_weekly_run(f, t)
          ELSE f>>

\* how a call of send_failure_alert can end
Deliveries == {"sent", "returns_false", "raises"}

\* variant: the deadline counts as alerted only when the alert was delivered
missed_alert_retried(flag, delivery) == <<delivery = "sent", TRUE>>

\* a watchdog block after its call of send_failure_alert: <<the alert flag, which
\* was set before the call, the loop goes on>>; the result of the call is not
\* used and an exception is caught and logged
missed_alert_delivered(flag, delivery) == <<flag, TRUE>>

\* input_listener, one line: <<the daily event is set, the weekly event is set,
\* the blocking calls the listener thread enters, the state file afterwards>>
input_listener(line, f, t) ==
    LET cmd == strip_lower(line)
    IN  <<cmd = "run_d", cmd = "run_w", {}, f>>

\* the process is observed on the weekly day, when the daily job, the weekly
\* job and the heartbeat all become due and both deadlines pass
LoopTimes == {Combine(WEEKLY_SCHEDULED_DAY, m) : m \in Instants(WEEKLY_SCHEDULED_DAY)}

InitLoop ==
    /\ now \in LoopTimes
    /\ pc = "loop_pending"
    /\ boots = 1
    /\ file = init_weekly_state_if_needed(init_state_if_needed(EmptyState, now), now)
    /\ credentials = FALSE
    /\ running = {}
    /\ alert_delivery = NoDelivery
    /\ startup_file = NoStartup
    /\ page = "dashboard"
    /\ next_run = schedule_all(now)
    /\ runnable = << >>
    /\ alert_sent_for_current_deadline = FALSE
    /\ current_deadline_str = NoneStr
    /\ weekly_alert_sent_for_current_deadline = FALSE
    /\ current_weekly_deadline_str = NoneStr
    /\ trigger_daily_event = FALSE
    /\ trigger_weekly_event = FALSE
    /\ unserved = {}
    /\ events = 0
    /\ missed_alerts = EmptyBag
    /\ success_log = {}
    /\ last_job = NoJob
    /\ last_heartbeat = NoHeartbeat
    /\ episode_alerts = 0

\* the listener thread reads one line
LoopRead ==
    /\ events < MaxEvents
    /\ \E line \in Lines :
          LET r == input_listener(line, file, now)
          IN  /\ trigger_daily_event' = (trigger_daily_event \/ r[1])
              /\ trigger_weekly_event' = (trigger_weekly_event \/ r[2])
              /\ running' = running \cup {<<"listener", a>> : a \in r[3]}
              /\ file' = r[4]
              /\ unserved' = unserved \cup Intended(line)
    /\ events' = events + 1
    /\ UNCHANGED <<now, pc, config_vars, alert_delivery, session_vars, next_run,
                   runnable, tracker_vars, missed_alerts, success_log, last_job>>

\* the wall clock reaches the next sampled instant, whatever the threads are doing
LoopClock ==
    /\ now' \in LoopTimes
    /\ now' > now
    /\ \A u \in LoopTimes : u > now => now' <= u
    /\ UNCHANGED <<pc, file, config_vars, call_vars, session_vars, next_run, runnable,
                   tracker_vars, trigger_vars, events, missed_alerts, success_log,
                   last_job>>

\* schedule.run_pending(): the runnable jobs are collected
LoopRunPending ==
    /\ pc = "loop_pending"
    /\ runnable' = runnable_jobs(next_run, now)
    /\ pc' = "loop_jobs"
    /\ UNCHANGED <<now, file, config_vars, call_vars, session_vars, next_run,
                   tracker_vars, trigger_vars, events, missed_alerts, success_log,
                   last_job>>

\* run_pending calls the next runnable job
LoopJobStart ==
    /\ pc = "loop_jobs" /\ runnable # << >>
    /\ running' = running \cup {<<"loop", Head(runnable)>>}
    /\ pc' = "loop_in_job"
    /\ UNCHANGED <<now, file, config_vars, alert_delivery, session_vars, next_run,
                   runnable, tracker_vars, trigger_vars, events, missed_alerts,
                   success_log, last_job>>

\* run_daily_report returns to run_pending, which reschedules it
LoopDailyEnd ==
    /\ pc = "loop_in_job" /\ Head(runnable) = "daily"
    /\ \E outcome \in JobOutcomes : DailyRun(outcome, now)
    /\ next_run' = [next_run EXCEPT !["daily"] = next_daily_run(now)]
    /\ runnable' = Tail(runnable)
    /\ running' = running \ {<<"loop", "daily">>}
    /\ pc' = "loop_jobs"
    /\ UNCHANGED <<config_vars, alert_delivery, session_vars, tracker_vars,
                   trigger_vars, missed_alerts>>

\* run_weekly_report returns to run_pending
LoopWeeklyEnd ==
    /\ pc = "loop_in_job" /\ Head(runnable) = "weekly"
    /\ \E outcome \in JobOutcomes : WeeklyRun(outcome, now)
    /\ next_run' = [next_run EXCEPT !["weekly"] = next_weekly_run(now)]
    /\ runnable' = Tail(runnable)
    /\ running' = running \ {<<"loop", "weekly">>}
    /\ pc' = "loop_jobs"
    /\ UNCHANGED <<config_vars, alert_delivery, session_vars, tracker_vars,
                   trigger_vars, missed_alerts>>

\* heartbeat_check returns to run_pending; its re-login and its alert are calls
\* it makes itself before it returns
LoopHeartbeatEnd ==
    /\ pc = "loop_in_job" /\ Head(runnable) = "heartbeat"
    /\ \E responses \in [1..max_attempts -> LoginResponses] :
          LET r == heartbeat_check(page, credentials, responses)
          IN  /\ page' = r[3]
              /\ last_heartbeat' = [detected |-> heartbeat_detects(page),
                                    relogin |-> /\ heartbeat_detects(page)
                                                /\ auto_login(page, credentials, responses)[1],
                                    result |-> r[1], alerts |-> r[2],
                                    before |-> page, at |-> now]
              /\ episode_alerts' = IF r[1] THEN 0
                                   ELSE IF episode_alerts + r[2] <= MaxEpisode
                                        THEN episode_alerts + r[2] ELSE MaxEpisode
    /\ next_run' = [next_run EXCEPT !["heartbeat"] = next_heartbeat_run(now)]
    /\ runnable' = Tail(runnable)
    /\ file' = heartbeat_state_file(file, now)
    /\ running' = running \ {<<"loop", "heartbeat">>}
    /\ pc' = "loop_jobs"
    /\ UNCHANGED <<now, config_vars, alert_delivery, tracker_vars, trigger_vars, events,
                   missed_alerts, success_log, last_job>>

\* the daily watchdog block up to the call of send_failure_alert
LoopWatchdogDaily ==
    /\ pc = "loop_jobs" /\ runnable = << >>
    /\ LET r == daily_watchdog(file, now, alert_sent_for_current_deadline,
                               current_deadline_str)
       IN  /\ alert_sent_for_current_deadline' = r[1]
           /\ current_deadline_str' = r[2]
           /\ running' = IF r[3] THEN running \cup {<<"loop", "alert">>} ELSE running
           /\ pc' = IF r[3] THEN "loop_in_daily_alert" ELSE "loop_weekly_watchdog"
    /\ UNCHANGED <<now, file, config_vars, alert_delivery, session_vars, next_run,
                   runnable, weekly_alert_sent_for_current_deadline,
                   current_weekly_deadline_str, trigger_vars, events, missed_alerts,
                   success_log, last_job>>

\* send_failure_alert returns to the daily watchdog block, or raises into its
\* except clause
LoopDailyAlertEnd ==
    /\ pc = "loop_in_daily_alert"
    /\ \E delivery \in Deliveries :
          LET r == missed_alert_delivered(alert_sent_for_current_deadline, delivery)
          IN  /\ alert_sent_for_current_deadline' = r[1]
              /\ pc' = IF r[2] THEN "loop_weekly_watchdog" ELSE "loop_died"
              /\ alert_delivery' = [cadence |-> "daily", result |-> delivery,
                                    later |-> FALSE]
    /\ running' = running \ {<<"loop", "alert">>}
    /\ UNCHANGED <<now, file, config_vars, session_vars, next_run, runnable,
                   current_deadline_str, weekly_alert_sent_for_current_deadline,
                   current_weekly_deadline_str, trigger_vars, events, missed_alerts,
                   success_log, last_job>>

\* the weekly watchdog block up to the call of send_failure_alert
LoopWatchdogWeekly ==
    /\ pc = "loop_weekly_watchdog"
    /\ LET r == weekly_watchdog(file, now, weekly_alert_sent_for_current_deadline,
                                current_weekly_deadline_str)
       IN  /\ weekly_alert_sent_for_current_deadline' = r[1]
           /\ current_weekly_deadline_str' = r[2]
           /\ running' = IF r[3] THEN running \cup {<<"loop", "alert">>} ELSE running
           /\ pc' = IF r[3] THEN "loop_in_weekly_alert" ELSE "loop_manual_daily"
    /\ UNCHANGED <<now, file, config_vars, alert_delivery, session_vars, next_run,
                   runnable, alert_sent_for_current_deadline, current_deadline_str,
                   trigger_vars, events, missed_alerts, success_log, last_job>>

\* send_failure_alert returns to the weekly watchdog block, or raises into its
\* except clause
LoopWeeklyAlertEnd ==
    /\ pc = "loop_in_weekly_alert"
    /\ \E delivery \in Deliveries :
          LET r == missed_alert_delivered(weekly_alert_sent_for_current_deadline, delivery)
          IN  /\ weekly_alert_sent_for_current_deadline' = r[1]
              /\ pc' = IF r[2] THEN "loop_manual_daily" ELSE "loop_died"
              /\ alert_delivery' = [cadence |-> "weekly", result |-> delivery,
                                    later |-> FALSE]
    /\ running' = running \ {<<"loop", "alert">>}
    /\ UNCHANGED <<now, file, config_vars, session_vars, next_run, runnable,
                   alert_sent_for_current_deadline, current_deadline_str,
                   current_weekly_deadline_str, trigger_vars, events, missed_alerts,
                   success_log, last_job>>

\* the manual daily block: the event is tested and cleared, the job is entered
LoopManualDailyStart ==
    /\ pc = "loop_manual_daily"
    /\ IF trigger_daily_event
       THEN /\ trigger_daily_event' = FALSE
            /\ unserved' = unserved \ {"daily"}
            /\ running' = running \cup {<<"loop", "daily">>}
            /\ pc' = "loop_in_manual_daily"
       ELSE /\ pc' = "loop_manual_weekly"
            /\ UNCHANGED <<trigger_daily_event, unserved, running>>
    /\ UNCHANGED <<now, file, config_vars, alert_delivery, session_vars, next_run,
                   runnable, tracker_vars, trigger_weekly_event, events, missed_alerts,
                   success_log, last_job>>

\* the manually triggered run_daily_report returns
LoopManualDailyEnd ==
    /\ pc = "loop_in_manual_daily"
    /\ \E outcome \in JobOutcomes : DailyRun(outcome, now)
    /\ running' = running \ {<<"loop", "daily">>}
    /\ pc' = "loop_manual_weekly"
    /\ UNCHANGED <<config_vars, alert_delivery, session_vars, next_run, runnable,
                   tracker_vars, trigger_vars, missed_alerts>>

\* the manual weekly block: the event is tested and cleared, the job is entered
LoopManualWeeklyStart ==
    /\ pc = "loop_manual_weekly"
    /\ IF trigger_weekly_event
       THEN /\ trigger_weekly_event' = FALSE
            /\ unserved' = unserved \ {"weekly"}
            /\ running' = running \cup {<<"loop", "weekly">>}
            /\ pc' = "loop_in_manual_weekly"
       ELSE /\ pc' = "loop_sleep"
            /\ UNCHANGED <<trigger_weekly_event, unserved, running>>
    /\ UNCHANGED <<now, file, config_vars, alert_delivery, session_vars, next_run,
                   runnable, tracker_vars, trigger_daily_event, events, missed_alerts,
                   success_log, last_job>>

\* the manually triggered run_weekly_report returns
LoopManualWeeklyEnd ==
    /\ pc = "loop_in_manual_weekly"
    /\ \E outcome \in JobOutcomes : WeeklyRun(outcome, now)
    /\ running' = running \ {<<"loop", "weekly">>}
    /\ pc' = "loop_sleep"
    /\ UNCHANGED <<config_vars, alert_delivery, session_vars, next_run, runnable,
                   tracker_vars, trigger_vars, missed_alerts>>

\* time.sleep(1)
LoopSleep ==
    /\ pc = "loop_sleep"
    /\ last_job' = NoJob
    /\ last_heartbeat' = NoHeartbeat
    /\ alert_delivery' = IF alert_delivery.cadence # "none"
                         THEN [alert_delivery EXCEPT !.later = TRUE]
                         ELSE alert_delivery
    /\ pc' = "loop_pending"
    /\ UNCHANGED <<now, file, config_vars, running, page, episode_alerts, next_run,
                   runnable, tracker_vars, trigger_vars, events, missed_alerts,
                   success_log>>

NextLoop ==
    \/ LoopRead
    \/ LoopClock
    \/ LoopRunPending
    \/ LoopJobStart
    \/ LoopDailyEnd
    \/ LoopWeeklyEnd
    \/ LoopHeartbeatEnd
    \/ LoopWatchdogDaily
    \/ LoopDailyAlertEnd
    \/ LoopWatchdogWeekly
    \/ LoopWeeklyAlertEnd
    \/ LoopManualDailyStart
    \/ LoopManualDailyEnd
    \/ LoopManualWeeklyStart
    \/ LoopManualWeeklyEnd
    \/ LoopSleep

SpecLoop == InitLoop /\ [][NextLoop]_vars

(***************************************************************************)
(* Vocabulary of the properties                                            *)
(***************************************************************************)
Cadences == {"daily", "weekly"}
NextKey(c) == IF c = "daily" THEN "next_expected_run" ELSE "next_expected_weekly_run"
LastKey(c) == IF c = "daily" THEN "last_successful_run" ELSE "last_successful_weekly_run"
Grace(c) == IF c = "daily" THEN GRACE_PERIOD_MINUTES ELSE WEEKLY_GRACE_PERIOD_MINUTES
Period(c) == IF c = "daily" THEN DayMin ELSE 7 * DayMin

\* the cadence's deadline in the file is overdue and no success is recorded for it
Overdue(c) ==
    /\ Has(file, NextKey(c))
    /\ now > FromIsoFormat(file[NextKey(c)]) + Grace(c)
    /\ Has(file, LastKey(c)) =>
          FromIsoFormat(file[LastKey(c)]) < FromIsoFormat(file[NextKey(c)])

\* the watchdog block of the cadence has just run in this tick
Watched(c) == IF c = "daily" THEN pc = "weekly_watchdog" ELSE pc = "manual_daily"

RECURSIVE SumCopies(_)
SumCopies(S) ==
    IF S = {} THEN 0
    ELSE LET e == CHOOSE x \in S : TRUE
         IN  CopiesIn(e, missed_alerts) + SumCopies(S \ {e})

Alerts == BagToSet(missed_alerts)
\* missed-run alerts sent for deadline d of cadence c by the process started b-th
AlertsInLifetime(c, d, b) ==
    SumCopies({e \in Alerts : e[1] = c /\ e[2] = d /\ e[3] = b})
\* the deadlines of cadence c the state file has held: the current one and the
\* ones that successes replaced
KnownDeadlines(c) ==
    (IF Has(file, NextKey(c)) THEN {FromIsoFormat(file[NextKey(c)])} ELSE {})
    \cup {FromIsoFormat(s[3]) : s \in {x \in success_log : x[1] = c /\ x[3] # NoneStr}}
\* the earliest of them
FirstDeadline(c) ==
    CHOOSE d \in KnownDeadlines(c) : \A e \in KnownDeadlines(c) : d <= e
\* missed-run alerts sent for deadline d of cadence c by all processes
AlertsEver(c, d) == SumCopies({e \in Alerts : e[1] = c /\ e[2] = d})

(***************************************************************************)
(* Properties                                                              *)
(***************************************************************************)

\* C1: within one process lifetime, once a tick finds a cadence's deadline D
\* overdue (now > D + grace, no success recorded for it) exactly one missed-run
\* alert has been sent for D by that process, it was sent at a time later than
\* D + grace, and no later tick adds another.
C1_OneAlertPerLifetime ==
    /\ \A e \in Alerts :
          /\ AlertsInLifetime(e[1], e[2], e[3]) <= 1
          /\ e[4] > FromIsoFormat(e[2]) + Grace(e[1])
    /\ \A c \in Cadences :
          (Watched(c) /\ Overdue(c)) =>
              AlertsInLifetime(c, file[NextKey(c)], boots) = 1

\* C1 witness: deadline 06:01 of the first day, alerted at 06:12, and a later
\* tick of the same process has evaluated the watchdog again with the deadline
\* still overdue.
C1_Witness ==
    /\ Watched("daily") /\ Overdue("daily")
    /\ \E e \in Alerts :
          /\ e[1] = "daily" /\ e[3] = boots
          /\ e[2] = file["next_expected_run"]
          /\ e[2] = IsoFormat(Combine(FirstDay, Hm(6, 1)))
          /\ e[4] = Combine(FirstDay, Hm(6, 12))
          /\ now > e[4]

C3_DailySuccessAdvances ==
    /\ (last_job.cadence = "daily" /\ Exported(last_job.outcome)) =>
          LET T == last_job.at
          IN  /\ Get(file, "last_successful_run") = <<DateOf(T), TimeOf(T)>>
              /\ Get(file, "next_expected_run") =
                    <<DateOf(T) + 1, Hm(SCHEDULED_RUN_HOUR, SCHEDULED_RUN_MINUTE)>>
              /\ FromIsoFormat(file["next_expected_run"]) > T
    /\ (Watched("daily") /\ Overdue("daily") /\ Has(file, "last_successful_run")) =>
          AlertsInLifetime("daily", file["next_expected_run"], boots) = 1

\* C3 witness: one process has alerted for a deadline, then recorded a success,
\* then alerted for the deadline that the success set.
C3_Witness ==
    /\ Has(file, "last_successful_run") /\ Has(file, "next_expected_run")
    /\ \E e1 \in Alerts, e2 \in Alerts :
          /\ e1[1] = "daily" /\ e2[1] = "daily" /\ e1[3] = e2[3]
          /\ FromIsoFormat(e1[2]) < FromIsoFormat(file["last_successful_run"])
          /\ e2[2] = file["next_expected_run"]
          /\ e2[2] = get_next_scheduled_time(FromIsoFormat(file["last_successful_run"]))

\* C4: a success recorded at T with D <= T <= D + grace, D being the cadence's
\* deadline at that time, means no missed-run alert is ever sent for D.
C4_SuccessInGraceSuppresses ==
    \A s \in success_log :
        (/\ s[3] # NoneStr
         /\ FromIsoFormat(s[3]) <= s[2]
         /\ s[2] <= FromIsoFormat(s[3]) + Grace(s[1]))
        => AlertsEver(s[1], s[3]) = 0

\* C4 witness: a daily success was recorded within the grace window of its
\* deadline and the watchdog has since run after the window closed.
C4_Witness ==
    /\ Watched("daily")
    /\ \E s \in success_log :
          /\ s[1] = "daily" /\ s[3] # NoneStr
          /\ FromIsoFormat(s[3]) < s[2]
          /\ s[2] <= FromIsoFormat(s[3]) + GRACE_PERIOD_MINUTES
          /\ now > FromIsoFormat(s[3]) + GRACE_PERIOD_MINUTES

\* C5 (as claimed): when the clock passes consecutive daily occurrences with no
\* success, each missed occurrence gets its own missed-run alert: once the
\* watchdog has run after occurrence O + grace, O being k days after an alerted
\* deadline with no success since, an alert for O exists.
C5_AlertPerMissedOccurrence ==
    Watched("daily") =>
        \A e \in Alerts : \A k \in 1..MaxDays :
            LET O == FromIsoFormat(e[2]) + k * DayMin
            IN  (/\ e[1] = "daily"
                 /\ now > O + GRACE_PERIOD_MINUTES
                 /\ Has(file, "last_successful_run") =>
                       FromIsoFormat(file["last_successful_run"]) < FromIsoFormat(e[2]))
                => \E e2 \in Alerts : e2[1] = "daily" /\ e2[2] = IsoFormat(O)

\* C6: a job run whose report generation raises leaves the state file as it was
\* and sends exactly one failure alert; a job run changes the state file only if
\* its export succeeded.
C6_FailedRunLeavesState ==
    [][/\ (last_job' # last_job /\ last_job'.outcome = "export_raises") =>
             (file' = file /\ last_job'.before = file /\ last_job'.alerts = 1)
       /\ (file' # file /\ pc # "init") =>
             (last_job' # last_job /\ Exported(last_job'.outcome))]_vars

\* C6 witness: a weekly run has failed while the state file held deadlines, and
\* the file is what it was before the run.
C6_Witness ==
    /\ last_job.cadence = "weekly" /\ last_job.outcome = "export_raises"
    /\ Has(last_job.before, "next_expected_run")
    /\ Has(last_job.before, "next_expected_weekly_run")
    /\ file = last_job.before /\ last_job.alerts = 1

\* C7: a liveness check that detects an invalid session returns True with no
\* alert if the re-login succeeds, and returns False with exactly one alert if
\* the re-login fails or no credentials are configured.
C7_HeartbeatRecovery ==
    last_heartbeat.detected =>
        /\ (~credentials => ~last_heartbeat.relogin)
        /\ last_heartbeat.relogin =>
              (last_heartbeat.result /\ last_heartbeat.alerts = 0)
        /\ ~last_heartbeat.relogin =>
              (~last_heartbeat.result /\ last_heartbeat.alerts = 1)

\* C7 witness: a check found the login redirect and the re-login restored the
\* session.
C7_Witness ==
    /\ last_heartbeat.detected /\ last_heartbeat.relogin
    /\ last_heartbeat.before = "login_redirect" /\ page = "dashboard"

\* C8 (as claimed): a run of consecutive liveness checks that each fail without
\* recovery sends one escalation alert in total.
C8_OneEscalationPerEpisode ==
    episode_alerts <= 1

\* C9: startup initialisation of a state without next_expected_run sets it to
\* today at the daily time when the clock is before that time, to tomorrow at
\* the daily time otherwise.
C9_InitialDailyDeadline ==
    pc = "sched_init_daily" =>
        Get(file, "next_expected_run") =
            IF TimeOf(now) < Hm(SCHEDULED_RUN_HOUR, SCHEDULED_RUN_MINUTE)
            THEN <<DateOf(now), Hm(SCHEDULED_RUN_HOUR, SCHEDULED_RUN_MINUTE)>>
            ELSE <<DateOf(now) + 1, Hm(SCHEDULED_RUN_HOUR, SCHEDULED_RUN_MINUTE)>>

\* C9 witness: initialisation at exactly the daily time chose tomorrow.
C9_Witness ==
    /\ pc = "sched_init_daily"
    /\ TimeOf(now) = Hm(SCHEDULED_RUN_HOUR, SCHEDULED_RUN_MINUTE)
    /\ Get(file, "next_expected_run") = <<DateOf(now) + 1, TimeOf(now)>>

\* C10: the weekly deadline computed from a reference falls on the weekly day
\* at the weekly time, is later than the reference, and is 1 to 7 days after the
\* reference's date: the coming weekly day from an earlier weekday, 7 days
\* later from the weekly day itself after the scheduled time.
C10_NextWeeklyDeadline ==
    pc = "sched_save_weekly" =>
        LET nx == FromIsoFormat(file["next_expected_weekly_run"])
            days == DateOf(nx) - DateOf(now)
        IN  /\ Weekday(nx) = WEEKLY_SCHEDULED_DAY
            /\ TimeOf(nx) = Hm(WEEKLY_SCHEDULED_HOUR, WEEKLY_SCHEDULED_MINUTE)
            /\ nx > now
            /\ days \in 1..7
            /\ Weekday(now) < WEEKLY_SCHEDULED_DAY =>
                  days = WEEKLY_SCHEDULED_DAY - Weekday(now)
            /\ (/\ Weekday(now) = WEEKLY_SCHEDULED_DAY
                /\ TimeOf(now) > Hm(WEEKLY_SCHEDULED_HOUR, WEEKLY_SCHEDULED_MINUTE))
               => days = 7

\* C10 witness: from a Saturday reference after 10:00 the deadline is the
\* Saturday 7 days later.
C10_Witness ==
    /\ pc = "sched_save_weekly"
    /\ Weekday(now) = 5 /\ TimeOf(now) = Hm(10, 1)
    /\ file["next_expected_weekly_run"] = <<DateOf(now) + 7, Hm(10, 0)>>

\* C11: a startup on a state file holding only last_run_date = d leaves a file
\* with last_successful_run = d at the daily time and without last_run_date; a
\* startup on a file that already has last_successful_run (after an earlier
\* migration, or with last_run_date still present) changes neither field.
C11_MigrationOnce ==
    [][boots' = boots + 1 =>
         /\ (DOMAIN file = {"last_run_date"} /\ StrptimeOk(file["last_run_date"])) =>
               /\ Get(file', "last_successful_run") =
                     <<file["last_run_date"][1],
                       Hm(SCHEDULED_RUN_HOUR, SCHEDULED_RUN_MINUTE)>>
               /\ ~Has(file', "last_run_date")
         /\ Has(file, "last_successful_run") =>
               /\ Get(file', "last_successful_run") = file["last_successful_run"]
               /\ Get(file', "last_run_date") = Get(file, "last_run_date")]_vars

\* C11 witness: the second startup after one that migrated a file holding only
\* the legacy field.
C11_Witness ==
    /\ pc = "store_started" /\ boots = 2
    /\ DOMAIN file = {"last_successful_run", "next_expected_run",
                      "next_expected_weekly_run"}
    /\ file["last_successful_run"] =
          <<FirstDay - MaxLegacy, Hm(SCHEDULED_RUN_HOUR, SCHEDULED_RUN_MINUTE)>>
    /\ file = last_job.before

\* C12 (as claimed): a startup on any state file that has a date in
\* last_run_date and no last_successful_run leaves a file that has
\* last_successful_run and no last_run_date, whatever else the file holds.
C12_MigrationPersisted ==
    [][(/\ boots' = boots + 1
        /\ Has(file, "last_run_date") /\ ~Has(file, "last_successful_run")
        /\ StrptimeOk(Get(file, "last_run_date")))
       => (Has(file', "last_successful_run") /\ ~Has(file', "last_run_date"))]_vars

\* C13 (as claimed): after a process is killed during a save, the state file
\* reads as the complete mapping from before the save or as the complete new
\* mapping.
C13_AtomicSave ==
    pc = "store_crashed" =>
        file \in {last_job.before,
                  IF last_job.cadence = "daily"
                  THEN save_successful_run(last_job.before, last_job.at)
                  ELSE save_successful_weekly_run(last_job.before, last_job.at)}

\* C14 (as claimed): once the process has started, every loop iteration's
\* watchdogs find next_expected_run and next_expected_weekly_run in the state
\* file, also after the file became unreadable while the loop was running and
\* after a later success of one cadence.
C14_DeadlinesReinitialised ==
    pc \in {"store_started", "store_ticked"} =>
        (Has(file, "next_expected_run") /\ Has(file, "next_expected_weekly_run"))

C16_NoTriggerLost ==
    [][/\ ("daily" \in unserved') =>
             (trigger_daily_event' \/ pc' \in {"lsn_clear_daily", "lsn_start_daily"})
       /\ ("weekly" \in unserved') =>
             (trigger_weekly_event' \/ pc' \in {"lsn_clear_weekly", "lsn_start_weekly"})
       /\ (trigger_daily_event' /\ ~trigger_daily_event) => "daily" \in unserved'
       /\ (trigger_weekly_event' /\ ~trigger_weekly_event) => "weekly" \in unserved'
       /\ (pc' = "lsn_running_daily" /\ pc # pc') => pc = "lsn_start_daily"
       /\ (pc' = "lsn_running_weekly" /\ pc # pc') => pc = "lsn_start_weekly"]_vars

\* C16 witness: a daily run was started by a command, a second command was
\* read after the run had started, and at the end of the iteration it is still
\* signalled for the next one.
C16_Witness ==
    /\ pc = "lsn_sleep"
    /\ last_job.cadence = "daily"
    /\ "daily" \in unserved /\ trigger_daily_event

C19_NoAlertBeforeFirstDeadline ==
    [][/\ (pc = "init" /\ pc' = "pending" /\ boots = 1) =>
             /\ missed_alerts' = EmptyBag
             /\ \A c \in Cadences : FromIsoFormat(file'[NextKey(c)]) > now
       /\ \A e \in Alerts :
             e[3] = 1 => e[4] > FirstDeadline(e[1]) + Grace(e[1])]_vars

\* C19 witness: the first process ran the daily job before initialising, the
\* run succeeded, and the deadline it set was later missed and alerted.
C19_Witness ==
    /\ boots = 1
    /\ \E s \in success_log, e \in Alerts :
          /\ s[1] = "daily" /\ s[3] = NoneStr
          /\ e[1] = "daily" /\ e[3] = 1
          /\ e[2] = get_next_scheduled_time(s[2])

\* C20 (as claimed): after a success recorded at T the new next_expected value
\* is the first scheduled occurrence of the cadence after T: no occurrence lies
\* strictly between T and it.
C20_NextOccurrenceCovered ==
    /\ pc = "sched_save_daily" =>
          \A d \in DateOf(now)..(DateOf(now) + 1) :
             ~(/\ now < Combine(d, DailyAt)
               /\ Combine(d, DailyAt) < FromIsoFormat(file["next_expected_run"]))
    /\ pc = "sched_save_weekly" =>
          \A d \in DateOf(now)..(DateOf(now) + 7) :
             d % 7 = WEEKLY_SCHEDULED_DAY =>
                ~(/\ now < Combine(d, WeeklyAt)
                  /\ Combine(d, WeeklyAt) < FromIsoFormat(file["next_expected_weekly_run"]))

\* C21: startup initialisation of a state without next_expected_weekly_run sets
\* it to this week's weekly day at the weekly time when the clock is on an
\* earlier weekday or on the weekly day before the weekly time, and to the
\* weekly day of the following week when the clock is on the weekly day at or
\* after the weekly time or on a later weekday; the value is later than the clock.
C21_InitialWeeklyDeadline ==
    pc = "sched_init_weekly" =>
        LET this_week == DateOf(now) - Weekday(now) + WEEKLY_SCHEDULED_DAY
            early == \/ Weekday(now) < WEEKLY_SCHEDULED_DAY
                     \/ /\ Weekday(now) = WEEKLY_SCHEDULED_DAY
                        /\ TimeOf(now) < Hm(WEEKLY_SCHEDULED_HOUR, WEEKLY_SCHEDULED_MINUTE)
        IN  /\ Get(file, "next_expected_weekly_run") =
                  <<IF early THEN this_week ELSE this_week + 7,
                    Hm(WEEKLY_SCHEDULED_HOUR, WEEKLY_SCHEDULED_MINUTE)>>
            /\ FromIsoFormat(file["next_expected_weekly_run"]) > now

\* C21 witness: initialisation on the weekly day at exactly the weekly time chose
\* the weekly day of the following week.
C21_Witness ==
    /\ pc = "sched_init_weekly"
    /\ Weekday(now) = WEEKLY_SCHEDULED_DAY
    /\ TimeOf(now) = Hm(WEEKLY_SCHEDULED_HOUR, WEEKLY_SCHEDULED_MINUTE)
    /\ file["next_expected_weekly_run"] = <<DateOf(now) + 7, TimeOf(now)>>

\* the state file with the fields of the two cadences exchanged
SwapKey(k) ==
    CASE k = "last_successful_run" -> "last_successful_weekly_run"
      [] k = "last_successful_weekly_run" -> "last_successful_run"
      [] k = "next_expected_run" -> "next_expected_weekly_run"
      [] k = "next_expected_weekly_run" -> "next_expected_run"
      [] OTHER -> k
Mirror(f) == [k \in {SwapKey(x) : x \in DOMAIN f} |-> f[SwapKey(k)]]

\* C22 (as claimed): a job run of one cadence records its success exactly when
\* a run of the other cadence with the same outcome, from the same state at
\* the same time, would record its own; and the two watchdog blocks decide
\* alike on the same clock, dedup tracker and state with the cadences' fields
\* exchanged.
C22_CadencesAgree ==
    [][/\ (/\ last_job' # last_job
           /\ last_job'.cadence \in Cadences
           /\ \A c \in Cadences : Get(file, LastKey(c)) # IsoFormat(last_job'.at)) =>
             LET o == last_job'.outcome
                 t == last_job'.at
                 recorded == Get(file', LastKey(last_job'.cadence)) = IsoFormat(t)
                 other == IF last_job'.cadence = "daily"
                          THEN Get(run_weekly_report(file, t, o)[1],
                                   "last_successful_weekly_run") = IsoFormat(t)
                          ELSE Get(run_daily_report(file, t, o)[1],
                                   "last_successful_run") = IsoFormat(t)
             IN  recorded <=> other
       /\ \A sent \in BOOLEAN :
          \A current \in {current_deadline_str, current_weekly_deadline_str} :
             daily_watchdog(file, now, sent, current) =
                weekly_watchdog(Mirror(file), now, sent, current)]_vars

\* C23: at most one blocking call (a job run by the schedule, a manually
\* triggered job, a heartbeat check with the re-login and alert it makes, an
\* alert sent by a watchdog) is in progress at any time, and a call is entered
\* only when none is in progress, however the clock and the listener's reads
\* fall between the entries and returns: a job that became due or was
\* requested while another was running is entered after that one returned.
C23_OneBlockingAction ==
    [][/\ Cardinality(running') <= 1
       /\ running' \ running # {} => running = {}]_vars

\* C23 witness: a scheduled daily job is in progress while the heartbeat has
\* become due and a weekly run has been requested by command.
C23_Witness ==
    /\ running = {<<"loop", "daily">>}
    /\ pc = "loop_in_job"
    /\ now >= next_run["heartbeat"]
    /\ trigger_weekly_event

\* C24: a step of the listener thread leaves the state file, the dedup
\* trackers and the session as they are; every step that changes the state
\* file or a dedup tracker is a step of the supervisor loop.
C24_ListenerOnlySignals ==
    [][/\ (pc' = pc /\ now' = now /\ events' = events + 1) =>
             /\ file' = file
             /\ tracker_vars' = tracker_vars
             /\ session_vars' = session_vars
             /\ running' = running
       /\ (file' # file \/ tracker_vars' # tracker_vars) => pc' # pc]_vars

\* C24 witness: the listener has read a command while the loop was inside a job
\* that then recorded its success; the command is still signalled.
C24_Witness ==
    /\ pc = "loop_jobs"
    /\ last_job.cadence = "daily" /\ last_job.before # file
    /\ "weekly" \in unserved /\ trigger_weekly_event

\* C25: a heartbeat check, whether it finds the session alive, restores it by
\* re-login or fails and alerts, leaves the whole state file and both dedup
\* trackers unchanged.
C25_HeartbeatLeavesState ==
    [][(last_heartbeat' # last_heartbeat /\ last_heartbeat'.at # NoneDt) =>
          /\ file' = file
          /\ tracker_vars' = tracker_vars]_vars

\* C25 witness: a heartbeat check has failed and alerted while the state file
\* holds a recorded daily success and the daily tracker holds an alerted deadline.
C25_Witness ==
    /\ last_heartbeat.at # NoneDt
    /\ ~last_heartbeat.result /\ last_heartbeat.alerts = 1
    /\ Has(file, "last_successful_run")
    /\ alert_sent_for_current_deadline

\* C28 (as claimed): a heartbeat check returns True only with the session
\* authenticated afterwards: either nothing was wrong with it, or the re-login
\* restored it.
C28_AliveOnlyIfAuthenticated ==
    [][(/\ last_heartbeat' # last_heartbeat
        /\ last_heartbeat'.at # NoneDt
        /\ last_heartbeat'.result) => page' = "dashboard"]_vars

\* C26: a step that records a daily success leaves every field of the state
\* file other than last_successful_run and next_expected_run as it was, a step
\* that records a weekly success every field other than the two weekly ones,
\* and a startup initialisation only adds the deadlines that were absent; so
\* through any interleaving of them no field is lost.
C26_OtherCadenceKept ==
    [][/\ \A c \in Cadences :
             (last_job' # last_job /\ last_job'.cadence = c /\ file' # file) =>
                /\ DOMAIN file' = DOMAIN file \cup {LastKey(c), NextKey(c)}
                /\ \A k \in DOMAIN file \ {LastKey(c), NextKey(c)} : file'[k] = file[k]
       /\ (pc = "init" /\ pc' = "pending") =>
             /\ DOMAIN file' = DOMAIN file \cup {NextKey(c) : c \in Cadences}
             /\ \A k \in DOMAIN file : file'[k] = file[k]
       /\ DOMAIN file \subseteq DOMAIN file']_vars

\* C26 witness: a daily success has been recorded on a state file that held a
\* weekly success, and the weekly fields are as they were.
C26_Witness ==
    /\ last_job.cadence = "daily" /\ last_job.before # file
    /\ Has(last_job.before, "last_successful_weekly_run")
    /\ Has(last_job.before, "next_expected_weekly_run")
    /\ file["last_successful_weekly_run"] = last_job.before["last_successful_weekly_run"]
    /\ file["next_expected_weekly_run"] = last_job.before["next_expected_weekly_run"]

\* the dedup tracker of a cadence: <<alert flag, tracked deadline>>
Tracker(c) ==
    IF c = "daily"
    THEN <<alert_sent_for_current_deadline, current_deadline_str>>
    ELSE <<weekly_alert_sent_for_current_deadline, current_weekly_deadline_str>>
\* the loop is inside the send_failure_alert call of the cadence's watchdog block
InAlert(c) == pc = (IF c = "daily" THEN "loop_in_daily_alert" ELSE "loop_in_weekly_alert")

\* C27: when the send of a missed-run alert ends, delivered or not (it
\* returned False, it raised), the deadline in the file is the tracked one and
\* is marked as alerted, and the loop goes on to its next block; a send is
\* entered only for a deadline that is not already tracked and marked, so it
\* is not repeated for the same deadline on a later iteration.
C27_AlertAttemptedOnce ==
    [][\A c \in Cadences :
          /\ (InAlert(c) /\ ~InAlert(c)') =>
                /\ Tracker(c)' = <<TRUE, file[NextKey(c)]>>
                /\ file' = file
                /\ pc' = (IF c = "daily" THEN "loop_weekly_watchdog"
                          ELSE "loop_manual_daily")
          /\ (~InAlert(c) /\ InAlert(c)') =>
                /\ Tracker(c) # <<TRUE, file[NextKey(c)]>>
                /\ Tracker(c)' = <<TRUE, file[NextKey(c)]>>]_vars

\* C27 witness: the send of a daily alert raised; on a later iteration the
\* daily watchdog block has run with the deadline still overdue and has not
\* sent again.
C27_Witness ==
    /\ alert_delivery = [cadence |-> "daily", result |-> "raises", later |-> TRUE]
    /\ pc = "loop_weekly_watchdog"
    /\ Overdue("daily")
    /\ Tracker("daily") = <<TRUE, file["next_expected_run"]>>

\* C29: starting from an empty state file, whenever a cadence's last success
\* and next deadline are both recorded the last success is strictly earlier
\* than the deadline; so neither watchdog ever finds a deadline that is past
\* and already covered by a success.
C29_LastBeforeNext ==
    /\ \A c \in Cadences :
          (Has(file, LastKey(c)) /\ Has(file, NextKey(c))) =>
             FromIsoFormat(file[LastKey(c)]) < FromIsoFormat(file[NextKey(c)])
    /\ LET r == is_past_deadline(file, now)
       IN  ~(r[1] /\ r[3] # NoneDt /\ r[3] >= r[2])
    /\ LET r == is_past_weekly_deadline(file, now)
       IN  ~(r[1] /\ r[3] # NoneDt /\ r[3] >= r[2])

\* C29 witness: with a daily success on record the daily watchdog has found the
\* next deadline overdue and has taken the branch that alerts.
C29_Witness ==
    /\ pc = "weekly_watchdog"
    /\ Has(file, "last_successful_run")
    /\ Overdue("daily")
    /\ \E e \in Alerts : e[1] = "daily" /\ e[2] = file["next_expected_run"] /\ e[4] = now

\* the cadence's deadline was stale when startup initialisation ran: its grace
\* period had ended and no success was recorded at or after it
StaleAtStartup(c) ==
    /\ startup_file.first
    /\ Has(startup_file.file, NextKey(c))
    /\ startup_file.at > FromIsoFormat(startup_file.file[NextKey(c)]) + Grace(c)
    /\ Has(startup_file.file, LastKey(c)) =>
          FromIsoFormat(startup_file.file[LastKey(c)])
             < FromIsoFormat(startup_file.file[NextKey(c)])
\* the step is the cadence's watchdog block
WatchdogStep(c) == ~Watched(c) /\ Watched(c)'
\* the step sends one missed-run alert for the deadline startup found
ReportsStartupDeadline(c) ==
    missed_alerts' = missed_alerts
        (+) SetToBag({<<c, startup_file.file[NextKey(c)], boots, now>>})
\* startup initialisation leaves the deadlines it finds in the file
InitKeepsDeadlines ==
    (pc = "init" /\ pc' = "pending") =>
       \A c \in Cadences :
          Has(file, NextKey(c)) => /\ Has(file', NextKey(c))
                                   /\ file'[NextKey(c)] = file[NextKey(c)]

\* C30 as stated: startup initialisation leaves a persisted deadline unchanged,
\* and when that deadline was already stale at startup the watchdog block of
\* the first loop iteration sends a missed-run alert for it.
C30_StaleDeadlineReported ==
    [][/\ InitKeepsDeadlines
       /\ \A c \in Cadences :
             (StaleAtStartup(c) /\ WatchdogStep(c)) => ReportsStartupDeadline(c)]_vars

\* C30: startup initialisation leaves a persisted deadline unchanged, and when
\* that deadline was already stale at startup the watchdog block of the first
\* loop iteration sends a missed-run alert for it, unless a scheduled job of
\* the cadence that came due during startup has succeeded in that iteration and
\* replaced the deadline before the watchdog block ran.
C30_StaleDeadlineReportedUnlessReplaced ==
    [][/\ InitKeepsDeadlines
       /\ \A c \in Cadences :
             (/\ StaleAtStartup(c)
              /\ WatchdogStep(c)
              /\ file[NextKey(c)] = startup_file.file[NextKey(c)])
                => ReportsStartupDeadline(c)]_vars

\* C30 witness: a restarted process has run the daily watchdog block of its
\* first iteration on a deadline that went stale while no process was up; the
\* only alert for that deadline is the one this process has just sent.
C30_Witness ==
    /\ boots >= 2
    /\ Watched("daily")
    /\ StaleAtStartup("daily")
    /\ file["next_expected_run"] = startup_file.file["next_expected_run"]
    /\ AlertsInLifetime("daily", file["next_expected_run"], boots) = 1
    /\ AlertsEver("daily", file["next_expected_run"]) = 1

====
